---------------------------- MODULE Spec2Model ----------------------------
(***************************************************************************)
(* Multi-provider LLM request layer of app/services/llm.py: UsageTracker,  *)
(* InMemoryStore, RedisStore, ProviderManager.                             *)
(*                                                                         *)
(* Calls of create_completion are coroutines on one event loop: the code   *)
(* between two awaits runs as one step.  The awaits are the network call   *)
(* (llm.py:412) and the inter-attempt sleep (llm.py:472).                  *)
(* Time is the value of time.time(), in whole seconds.                     *)
(***************************************************************************)
EXTENDS Integers, Sequences, FiniteSets, TLC

VARIABLES
    now,        \* time.time()
    manager,    \* outcome of ProviderManager.__init__: "ok" or "ValueError"
    store,      \* type of ProviderManager.store: "memory" or "redis"
    providers,  \* ProviderManager.providers (list of ProviderConfig)
    cursor,     \* ProviderManager.current_provider_idx
    trackers,   \* InMemoryStore.trackers (of RedisStore.memory_store for "redis")
    redis,      \* the keys held by the Redis server: key -> [v, exp]
    calls,      \* the create_completion coroutines: locals and position
    started,    \* number of create_completion calls started so far
    hist,       \* history of each call (attempts, network calls, sleeps)
    marks,      \* history of each provider: the cooldowns that were imposed
    recorded,   \* history of each provider: every timestamp ever recorded
    faults,     \* number of network calls that failed so far
    outages,    \* number of steps during which the Redis server was unreachable
    served,     \* history of the calls made one after the other
    lastOp,     \* the last store operation called directly, and its outcome
    threads     \* threads inside InMemoryStore.get_tracker, and the objects made

vars == <<now, manager, store, providers, cursor, trackers, redis, calls,
          started, hist, marks, recorded, faults, outages, served, lastOp,
          threads>>

-----------------------------------------------------------------------------
(* Bounds of the model *)

MaxCalls == 2       \* coroutines that may be in flight at once
MaxStarts == 3      \* create_completion calls over a behaviour
TimeStep == 30      \* seconds by which the clock advances in one Tick
MaxTime == 90       \* the clock stops here
MaxFaults == 2      \* network calls that fail over a behaviour
MaxOutages == 1     \* steps that find the Redis server unreachable
MaxStreams == 2     \* streaming calls over a behaviour
MaxChunks == 1      \* chunks a caller reads from one stream
MaxThreads == 3     \* threads that use the in-memory store at once
MaxStoreOps == 3    \* store operations a client calls directly
MaxVariantOps == 5  \* increments and checks on a reachable server
ScenarioCalls == 4      \* calls made one after the other
ScenarioMaxTime == 150  \* the clock of calls made one after the other

(* Program constants *)

None == -1              \* failed_until: Optional[float] = None
MinuteWindow == 60      \* cleanup_old_requests: older than 1 minute
DayWindow == 86400      \* cleanup_old_requests: older than 24 hours
RpmTtl == 60            \* pipe.expire(key, 60)
RpdTtl == 86400         \* pipe.expire(key, 86400)
RateLimitCooldown == 60     \* _mark_provider_failed(config, duration=60)
ServerErrorCooldown == 300  \* _mark_provider_failed(config, duration=300)

Slots == 1..MaxCalls
Threads == 1..MaxThreads

-----------------------------------------------------------------------------
(* ProviderConfig.  An unset limit (None) is 0: the code tests the limits   *)
(* by truthiness (if config.requests_per_minute and ...).                   *)

ProviderConfig(name, rpm, rpd) ==
    [name |-> name, model |-> "default-" \o name,
     requests_per_minute |-> rpm, requests_per_day |-> rpd]

-----------------------------------------------------------------------------
(* UsageTracker *)

NewTracker ==
    [minute_requests |-> <<>>, day_requests |-> <<>>, failed_until |-> None]

\* A recording that puts the timestamp at the front of the windows.
add_request_front(tr, timestamp) ==
    [tr EXCEPT !.minute_requests = <<timestamp>> \o @,
               !.day_requests = <<timestamp>> \o @]

add_request(tr, timestamp) ==
    [tr EXCEPT !.minute_requests = Append(@, timestamp),
               !.day_requests = Append(@, timestamp)]

\* A purge that also drops the entry exactly `window` old.
RECURSIVE popleft_while_inclusive(_, _, _)
popleft_while_inclusive(q, current_time, window) ==
    IF q /= <<>> /\ current_time - Head(q) >= window
    THEN popleft_while_inclusive(Tail(q), current_time, window)
    ELSE q

RECURSIVE popleft_while(_, _, _)
popleft_while(q, current_time, window) ==
    IF q /= <<>> /\ current_time - Head(q) > window
    THEN popleft_while(Tail(q), current_time, window)
    ELSE q

\* A purge that leaves the minute window alone.
cleanup_day_only(tr, current_time) ==
    [tr EXCEPT !.day_requests = popleft_while(@, current_time, DayWindow)]

\* A purge that leaves the day window alone.
cleanup_minute_only(tr, current_time) ==
    [tr EXCEPT !.minute_requests = popleft_while(@, current_time, MinuteWindow)]

cleanup_old_requests(tr, current_time) ==
    [tr EXCEPT !.minute_requests = popleft_while(@, current_time, MinuteWindow),
               !.day_requests = popleft_while(@, current_time, DayWindow)]

get_counts(tr, current_time) ==
    LET c == cleanup_old_requests(tr, current_time)
    IN  [tracker |-> c,
         minute |-> Len(c.minute_requests),
         day |-> Len(c.day_requests)]

mark_failed(tr, t, duration) ==
    [tr EXCEPT !.failed_until = t + duration]

is_failed(tr, t) ==
    IF tr.failed_until = None THEN [tracker |-> tr, ret |-> FALSE]
    ELSE IF t >= tr.failed_until
         THEN [tracker |-> [tr EXCEPT !.failed_until = None], ret |-> FALSE]
         ELSE [tracker |-> tr, ret |-> TRUE]

-----------------------------------------------------------------------------
(* InMemoryStore.  A store state S is [trackers |-> ..., redis |-> ...].   *)

get_tracker(trs, key) ==
    IF key \in DOMAIN trs THEN trs ELSE (key :> NewTracker) @@ trs

-----------------------------------------------------------------------------
(* The Redis server.  A key is <<provider, metric>>; it holds a value and   *)
(* the time at which it expires.  `up` tells whether the commands of one    *)
(* store operation reach the server; when they do not, the client raises.   *)

get_redis_key(provider, metric) == <<provider, metric>>

redis_live(r, key, t) == key \in DOMAIN r /\ t < r[key].exp

redis_get(r, key, t) == IF redis_live(r, key, t) THEN r[key].v ELSE 0

redis_incr_expire(r, key, t, ttl) ==
    (key :> [v |-> redis_get(r, key, t) + 1, exp |-> t + ttl]) @@ r

redis_setex(r, key, t, ttl) == (key :> [v |-> 1, exp |-> t + ttl]) @@ r

redis_expire_keys(r, t) ==
    [key \in {k \in DOMAIN r : t < r[k].exp} |-> r[key]]

-----------------------------------------------------------------------------
(* RedisStore.  Every operation returns the store state it leaves, its      *)
(* answer, whether it fell back to memory_store, and whether it raised.     *)

\* A check that counts itself as a request.
check_rate_limit_memory_counting(S, config, t) ==
    LET trs == get_tracker(S.trackers, config.name)
    IN  [S |-> [S EXCEPT !.trackers =
                   [trs EXCEPT ![config.name] =
                       add_request(trs[config.name], t)]],
         ret |-> TRUE]

check_rate_limit_memory(S, config, t) ==
    LET trs == get_tracker(S.trackers, config.name)
        c == get_counts(trs[config.name], t)
        S1 == [S EXCEPT !.trackers = [trs EXCEPT ![config.name] = c.tracker]]
    IN  IF config.requests_per_minute /= 0
           /\ c.minute >= config.requests_per_minute
        THEN [S |-> S1, ret |-> FALSE]
        ELSE IF config.requests_per_day /= 0
                /\ c.day >= config.requests_per_day
             THEN [S |-> S1, ret |-> FALSE]
             ELSE [S |-> S1, ret |-> TRUE]

increment_usage_memory(S, provider, t) ==
    LET trs == get_tracker(S.trackers, provider)
    IN  [S EXCEPT !.trackers =
            [trs EXCEPT ![provider] = add_request(trs[provider], t)]]

mark_failed_memory(S, provider, t, duration) ==
    LET trs == get_tracker(S.trackers, provider)
    IN  [S EXCEPT !.trackers =
            [trs EXCEPT ![provider] = mark_failed(trs[provider], t, duration)]]

is_failed_memory(S, provider, t) ==
    LET trs == get_tracker(S.trackers, provider)
        f == is_failed(trs[provider], t)
    IN  [S |-> [S EXCEPT !.trackers = [trs EXCEPT ![provider] = f.tracker]],
         ret |-> f.ret]

check_rate_limit(S, config, t, up) ==
    LET rpm == redis_get(S.redis, get_redis_key(config.name, "rpm"), t)
        rpd == redis_get(S.redis, get_redis_key(config.name, "rpd"), t)
        touches == config.requests_per_minute /= 0
                   \/ config.requests_per_day /= 0
    IN  IF touches /\ ~up
        THEN LET m == check_rate_limit_memory(S, config, t)
             IN  [S |-> m.S, ret |-> m.ret, fellback |-> TRUE, raised |-> FALSE]
        ELSE IF config.requests_per_minute /= 0
                /\ rpm /= 0 /\ rpm >= config.requests_per_minute
             THEN [S |-> S, ret |-> FALSE, fellback |-> FALSE, raised |-> FALSE]
             ELSE IF config.requests_per_day /= 0
                     /\ rpd /= 0 /\ rpd >= config.requests_per_day
                  THEN [S |-> S, ret |-> FALSE, fellback |-> FALSE,
                        raised |-> FALSE]
                  ELSE [S |-> S, ret |-> TRUE, fellback |-> FALSE,
                        raised |-> FALSE]

\* An increment without the except clause: the error of the client goes up.
increment_usage_raises(S, config, t, up) ==
    IF (config.requests_per_minute /= 0 \/ config.requests_per_day /= 0)
       /\ ~up
    THEN [S |-> S, ret |-> FALSE, fellback |-> FALSE, raised |-> TRUE]
    ELSE [S |-> S, ret |-> TRUE, fellback |-> FALSE, raised |-> FALSE]

increment_usage(S, config, t, up) ==
    LET touches == config.requests_per_minute /= 0
                   \/ config.requests_per_day /= 0
        r1 == IF config.requests_per_minute /= 0
              THEN redis_incr_expire(S.redis,
                       get_redis_key(config.name, "rpm"), t, RpmTtl)
              ELSE S.redis
        r2 == IF config.requests_per_day /= 0
              THEN redis_incr_expire(r1,
                       get_redis_key(config.name, "rpd"), t, RpdTtl)
              ELSE r1
    IN  IF touches /\ ~up
        THEN [S |-> increment_usage_memory(S, config.name, t), ret |-> TRUE,
              fellback |-> TRUE, raised |-> FALSE]
        ELSE [S |-> [S EXCEPT !.redis = r2], ret |-> TRUE,
              fellback |-> FALSE, raised |-> FALSE]

mark_provider_failed(S, provider, t, duration, up) ==
    IF ~up
    THEN [S |-> mark_failed_memory(S, provider, t, duration), ret |-> TRUE,
          fellback |-> TRUE, raised |-> FALSE]
    ELSE [S |-> [S EXCEPT !.redis =
                    redis_setex(@, get_redis_key(provider, "failed"), t,
                                duration)],
          ret |-> TRUE, fellback |-> FALSE, raised |-> FALSE]

is_provider_failed(S, provider, t, up) ==
    IF ~up
    THEN LET m == is_failed_memory(S, provider, t)
         IN  [S |-> m.S, ret |-> m.ret, fellback |-> TRUE, raised |-> FALSE]
    ELSE [S |-> S,
          ret |-> redis_get(S.redis, get_redis_key(provider, "failed"), t) /= 0,
          fellback |-> FALSE, raised |-> FALSE]

-----------------------------------------------------------------------------
(* Errors and results.  An error is the exception object: its type, whether *)
(* it has a status_code attribute, and that status code.                    *)

Error(type, has_status, status) ==
    [type |-> type, has_status |-> has_status, status_code |-> status]

NoError == Error("None", FALSE, 0)
Unavailable == Error("Exception: temporarily unavailable", FALSE, 0)
LocalRateLimit == Error("RateLimitError: rate limit exceeded", FALSE, 0)
StoreError == Error("StoreError", FALSE, 0)
Ok == Error("ok", FALSE, 0)

StatusCodes == {404, 429, 500}

NetErrors ==
    {Error("RateLimitError", TRUE, 429), Error("TimeoutError", FALSE, 0)}
    \cup {Error("APIStatusError", TRUE, sc) : sc \in StatusCodes}

NetOutcomes == {Ok} \cup NetErrors

NoResult == [kind |-> "none", provider |-> "", n |-> 0, last |-> NoError]
Response(provider) ==
    [kind |-> "response", provider |-> provider, n |-> 0, last |-> NoError]
AllFailed(n, last_error) ==
    [kind |-> "all_failed", provider |-> "", n |-> n, last |-> last_error]
Raised(e) == [kind |-> "raised", provider |-> "", n |-> 0, last |-> e]

NoModel == ""
CallerModels == {NoModel, "caller-model"}

-----------------------------------------------------------------------------
(* ProviderManager: the four store operations.  The mem_ operators are the  *)
(* in-memory branches.                                                      *)

Answer(S, ret) == [S |-> S, ret |-> ret, fellback |-> FALSE, raised |-> FALSE]

\* A check that takes an unset ceiling for a ceiling of zero.
mem_check_rate_limit_unset_is_zero(S, config, t) ==
    LET trs == get_tracker(S.trackers, config.name)
        c == get_counts(trs[config.name], t)
        S1 == [S EXCEPT !.trackers = [trs EXCEPT ![config.name] = c.tracker]]
    IN  IF c.minute >= config.requests_per_minute
        THEN Answer(S1, FALSE)
        ELSE IF c.day >= config.requests_per_day
             THEN Answer(S1, FALSE)
             ELSE Answer(S1, TRUE)

\* A check that refuses only above the ceilings.
mem_check_rate_limit_above(S, config, t) ==
    LET trs == get_tracker(S.trackers, config.name)
        c == get_counts(trs[config.name], t)
        S1 == [S EXCEPT !.trackers = [trs EXCEPT ![config.name] = c.tracker]]
    IN  IF config.requests_per_minute /= 0
           /\ c.minute > config.requests_per_minute
        THEN Answer(S1, FALSE)
        ELSE IF config.requests_per_day /= 0
                /\ c.day > config.requests_per_day
             THEN Answer(S1, FALSE)
             ELSE Answer(S1, TRUE)

mem_check_rate_limit(S, config, t) ==
    LET trs == get_tracker(S.trackers, config.name)
        c == get_counts(trs[config.name], t)
        S1 == [S EXCEPT !.trackers = [trs EXCEPT ![config.name] = c.tracker]]
    IN  IF config.requests_per_minute /= 0
           /\ c.minute >= config.requests_per_minute
        THEN Answer(S1, FALSE)
        ELSE IF config.requests_per_day /= 0
                /\ c.day >= config.requests_per_day
             THEN Answer(S1, FALSE)
             ELSE Answer(S1, TRUE)

mem_increment_usage(S, config, t) ==
    LET trs == get_tracker(S.trackers, config.name)
    IN  Answer([S EXCEPT !.trackers =
                   [trs EXCEPT ![config.name] =
                       add_request(trs[config.name], t)]], TRUE)

mem_mark_provider_failed(S, config, t, duration) ==
    LET trs == get_tracker(S.trackers, config.name)
    IN  Answer([S EXCEPT !.trackers =
                   [trs EXCEPT ![config.name] =
                       mark_failed(trs[config.name], t, duration)]], TRUE)

mem_is_provider_failed(S, config, t) ==
    LET trs == get_tracker(S.trackers, config.name)
        f == is_failed(trs[config.name], t)
    IN  Answer([S EXCEPT !.trackers =
                   [trs EXCEPT ![config.name] = f.tracker]], f.ret)

pm_check_rate_limit(S, config, t, up) ==
    IF store = "redis" THEN check_rate_limit(S, config, t, up)
    ELSE mem_check_rate_limit(S, config, t)

pm_increment_usage(S, config, t, up) ==
    IF store = "redis" THEN increment_usage(S, config, t, up)
    ELSE mem_increment_usage(S, config, t)

pm_mark_provider_failed(S, config, t, duration, up) ==
    IF store = "redis"
    THEN mark_provider_failed(S, config.name, t, duration, up)
    ELSE mem_mark_provider_failed(S, config, t, duration)

pm_is_provider_failed(S, config, t, up) ==
    IF store = "redis" THEN is_provider_failed(S, config.name, t, up)
    ELSE mem_is_provider_failed(S, config, t)

-----------------------------------------------------------------------------
(* ProviderManager._try_provider, in its two halves: up to the await of the *)
(* network call, and from the end of that call.                             *)

Refused(S, e, kwargs) ==
    [S |-> S, admitted |-> FALSE, error |-> e, request |-> NoModel,
     kwargs |-> kwargs]

\* An admission that consults the rate limit before the cooldown.
try_provider_dispatch_limit_first(S, config, kwargs, t, up) ==
    LET c == pm_check_rate_limit(S, config, t, up)
        f == pm_is_provider_failed(c.S, config, t, up)
        request == IF kwargs = NoModel THEN config.model ELSE kwargs
        i == pm_increment_usage(f.S, config, t, up)
    IN  IF ~c.ret THEN Refused(c.S, LocalRateLimit, kwargs)
        ELSE IF f.ret THEN Refused(f.S, Unavailable, kwargs)
        ELSE [S |-> i.S, admitted |-> TRUE, error |-> NoError,
              request |-> request, kwargs |-> request]

\* Lines 392-412: admission, model injection, usage increment.  `kwargs` is
\* the "model" entry of the keyword arguments ("": absent), the other
\* entries are never read or written; the `kwargs` of the result is the
\* dict of _try_provider as the injection leaves it.
try_provider_dispatch(S, config, kwargs, t, up) ==
    LET f == pm_is_provider_failed(S, config, t, up)
        c == pm_check_rate_limit(f.S, config, t, up)
        request == IF kwargs = NoModel THEN config.model ELSE kwargs
        i == pm_increment_usage(c.S, config, t, up)
    IN  IF f.raised THEN Refused(f.S, StoreError, kwargs)
        ELSE IF f.ret THEN Refused(f.S, Unavailable, kwargs)
        ELSE IF c.raised THEN Refused(c.S, StoreError, kwargs)
        ELSE IF ~c.ret THEN Refused(c.S, LocalRateLimit, kwargs)
        ELSE IF i.raised THEN Refused(i.S, StoreError, request)
        ELSE [S |-> i.S, admitted |-> TRUE, error |-> NoError,
              request |-> request, kwargs |-> request]

\* Handlers that impose the default cooldown on every error.
cooldown_for_default(e) == ServerErrorCooldown

\* The cooldown the except clauses of lines 417-434 impose (0: none).
cooldown_for(e) ==
    IF e.type = "RateLimitError" THEN RateLimitCooldown
    ELSE IF e.has_status
         THEN IF e.status_code = 429 THEN RateLimitCooldown
              ELSE IF e.status_code >= 500 THEN ServerErrorCooldown
              ELSE 0
         ELSE 0

\* A return that takes the request of a failed network call back out of
\* the tracker.
try_provider_return_refund(S, config, outcome, t, up) ==
    LET nm == config.name
        refund(q) == IF q = <<>> THEN q ELSE SubSeq(q, 1, Len(q) - 1)
        S1 == IF nm \in DOMAIN S.trackers
              THEN [S EXCEPT !.trackers[nm].minute_requests = refund(@),
                             !.trackers[nm].day_requests = refund(@)]
              ELSE S
    IN  IF outcome = Ok
        THEN [S |-> S, ok |-> TRUE, error |-> NoError, marked |-> 0]
        ELSE [S |-> S1, ok |-> FALSE, error |-> outcome, marked |-> 0]

\* Lines 412-434: the network call ended with `outcome`.
try_provider_return(S, config, outcome, t, up) ==
    LET d == cooldown_for(outcome)
        m == pm_mark_provider_failed(S, config, t, d, up)
    IN  IF outcome = Ok
        THEN [S |-> S, ok |-> TRUE, error |-> NoError, marked |-> 0]
        ELSE IF d = 0
        THEN [S |-> S, ok |-> FALSE, error |-> outcome, marked |-> 0]
        ELSE IF m.raised
        THEN [S |-> m.S, ok |-> FALSE, error |-> StoreError, marked |-> 0]
        ELSE [S |-> m.S, ok |-> FALSE, error |-> outcome, marked |-> d]

-----------------------------------------------------------------------------
(* ProviderManager.create_completion: one iteration of the failover loop.   *)

IdleCall ==
    [pc |-> "idle", attempt |-> 0, config |-> 0, kwargs |-> NoModel,
     request |-> NoModel, last_error |-> NoError, result |-> NoResult]

NoHist ==
    [tried |-> <<>>, nets |-> <<>>, lastErr |-> NoError, sleeps |-> 0,
     alone |-> TRUE, startCursor |-> 0, retCursor |-> None,
     model |-> NoModel]

InFlight(call) == call.pc \in {"net", "sleep", "loop"}

\* A finished call hands its result to its caller before anything else runs.
NoneDone == \A c \in Slots : calls[c].pc /= "done"

\* A lock that stays taken while a call waits for the network or sleeps.
locks_held_across_await(pc) ==
    IF pc \in {"net", "sleep"} THEN {"lock"} ELSE {}

\* The locks a call holds while it is at `pc`: every `with self.lock` block
\* of UsageTracker and InMemoryStore (lines 51, 57, 69, 74, 79, 99) is
\* entered and left inside one synchronous method, none spans an await.
locks_held(pc) == {}

\* Call c can take the locks its next step needs.
CanAcquire(c) == \A d \in Slots \ {c} : locks_held(calls[d].pc) = {}

\* Calls take the lowest free slot: which slot a call runs in means nothing.
FreeSlot(c) ==
    /\ calls[c].pc = "idle"
    /\ \A d \in Slots : d < c => calls[d].pc /= "idle"

\* A loop with one iteration more than there are providers.
range_has_next_extra(attempt, n) == attempt + 1 < n + 1

\* Line 452: for attempt in range(len(self.providers)) has an iteration
\* after `attempt` (-1: before the first).
range_has_next(attempt, n) == attempt + 1 < n

\* A handler that lets the errors without a status code through.
catches_status_only(e) == e.has_status

\* Line 459: except Exception catches the error of an attempt.
catches(e) == TRUE

\* Line 466: move to the next provider.
next_provider_idx(idx, n) == (idx + 1) % n

\* A delay after every attempt, the last one included.
sleeps_after_every(attempt, n) == attempt < n

\* Line 471: is the attempt followed by the delay?
sleeps_after(attempt, n) == attempt < n - 1

\* A cursor that moves on after a success too.
idx_after_success_advance(idx) == (idx + 1) % Len(providers)

\* A success that sends the cursor back to the first provider.
idx_after_success_reset(idx) == 0

\* Line 457: the cursor after a successful attempt on providers[idx].
idx_after_success(idx) == idx

\* A terminal failure that sends the cursor back to the first provider.
all_providers_failed_reset(call, h, idx) ==
    [call |-> [call EXCEPT !.pc = "done",
                           !.result = AllFailed(Len(providers),
                                                call.last_error)],
     h |-> [h EXCEPT !.retCursor = 0],
     cursor |-> 0]

\* Lines 475-477: the loop is over.
all_providers_failed(call, h, idx) ==
    [call |-> [call EXCEPT !.pc = "done",
                           !.result = AllFailed(Len(providers),
                                                call.last_error)],
     h |-> [h EXCEPT !.retCursor = idx],
     cursor |-> idx]

\* A handler that writes back the index it selected before the attempt,
\* plus one: the advances other calls made in between are lost.
attempt_failed_stale(call, h, e, idx) ==
    LET n == Len(providers)
        nextIdx == next_provider_idx(call.config - 1, n)
        c1 == [call EXCEPT !.last_error = e]
        h1 == [h EXCEPT !.lastErr = e]
    IN  IF sleeps_after(call.attempt, n)
        THEN [call |-> [c1 EXCEPT !.pc = "sleep"],
              h |-> [h1 EXCEPT !.sleeps = @ + 1], cursor |-> nextIdx]
        ELSE all_providers_failed(c1, h1, nextIdx)

\* Lines 459-477: the attempt of `call` failed with `e`.
attempt_failed(call, h, e, idx) ==
    LET n == Len(providers)
        nextIdx == next_provider_idx(idx, n)
        c1 == [call EXCEPT !.last_error = e]
        h1 == [h EXCEPT !.lastErr = e]
    IN  IF ~catches(e)
        THEN [call |-> [call EXCEPT !.pc = "done", !.result = Raised(e)],
              h |-> [h1 EXCEPT !.retCursor = idx], cursor |-> idx]
        ELSE IF sleeps_after(call.attempt, n)
        THEN [call |-> [c1 EXCEPT !.pc = "sleep"],
              h |-> [h1 EXCEPT !.sleeps = @ + 1], cursor |-> nextIdx]
        ELSE IF range_has_next(call.attempt, n)
        THEN [call |-> [c1 EXCEPT !.pc = "loop"], h |-> h1,
              cursor |-> nextIdx]
        ELSE all_providers_failed(c1, h1, nextIdx)

\* A call that hands its own dict to _try_provider.
kwargs_shared(caller_kwargs, callee_kwargs) == callee_kwargs

\* Line 456: _try_provider(config, **kwargs) unpacks the arguments into a
\* dict of the callee; the dict of create_completion stays as it was.
kwargs_after_call(caller_kwargs, callee_kwargs) == caller_kwargs

\* Lines 453-472: select providers[cursor] and run _try_provider up to its
\* await; an attempt refused at admission fails at once.
attempt_step(call, h, idx, S, t, up) ==
    LET config == providers[idx + 1]
        a == try_provider_dispatch(S, config, call.kwargs, t, up)
        h1 == [h EXCEPT !.tried = Append(@, idx + 1)]
        kw == kwargs_after_call(call.kwargs, a.kwargs)
        f == attempt_failed([call EXCEPT !.config = idx + 1, !.kwargs = kw],
                            h1, a.error, idx)
    IN  IF a.admitted
        THEN [call |-> [call EXCEPT !.pc = "net", !.config = idx + 1,
                                    !.request = a.request, !.kwargs = kw],
              h |-> [h1 EXCEPT !.nets = Append(@, idx + 1)],
              cursor |-> idx, S |-> a.S, dispatched |-> TRUE]
        ELSE [call |-> f.call, h |-> f.h, cursor |-> f.cursor, S |-> a.S,
              dispatched |-> FALSE]

\* The loop head, with `call.attempt` the iteration that ended (-1: none).
loop_step(call, h, idx, S, t, up) ==
    IF range_has_next(call.attempt, Len(providers))
    THEN attempt_step([call EXCEPT !.attempt = @ + 1], h, idx, S, t, up)
    ELSE all_providers_failed(call, h, idx)
             @@ [S |-> S, dispatched |-> FALSE]

\* The frame of a step of call c that ends in outcome r.
CallStep(c, r, others) ==
    /\ calls' = [calls EXCEPT ![c] = r.call]
    /\ hist' = [d \in Slots |-> IF d = c THEN r.h ELSE others[d]]
    /\ cursor' = r.cursor
    /\ trackers' = r.S.trackers
    /\ redis' = r.S.redis
    /\ recorded' = IF r.dispatched
                   THEN LET nm == providers[r.call.config].name
                        IN  [recorded EXCEPT ![nm] = Append(@, now)]
                   ELSE recorded

\* Whether the Redis server answers during this step.  The in-memory store
\* has no backend.
Backend(up) ==
    /\ store = "memory" => up
    /\ outages' = IF up THEN outages ELSE outages + 1

EmptyMap == [k \in {} |-> NewTracker]

\* The history of cooldowns after `provider` is marked failed for `duration`:
\* the deadline of the last 60 s mark, of the last 300 s mark, and of the
\* last mark of either kind.
Marked(m, provider, duration, t) ==
    IF duration = ServerErrorCooldown
    THEN [m EXCEPT ![provider].until5xx = t + duration,
                   ![provider].until = t + duration]
    ELSE [m EXCEPT ![provider].until429 = t + duration,
                   ![provider].until = t + duration]

\* create_completion is called: lines 449-457 (or 475 with no provider).
StartCall(c, kwargs, up) ==
    /\ manager = "ok"
    /\ NoneDone
    /\ FreeSlot(c)
    /\ CanAcquire(c)
    /\ Backend(up)
    /\ started' = started + 1
    /\ LET quiet == \A d \in Slots \ {c} : ~InFlight(calls[d])
           call == [IdleCall EXCEPT !.kwargs = kwargs, !.attempt = -1]
           h == [NoHist EXCEPT !.alone = quiet, !.startCursor = cursor,
                               !.model = kwargs]
           S == [trackers |-> trackers, redis |-> redis]
           others == [d \in Slots |->
                        IF InFlight(calls[d])
                        THEN [hist[d] EXCEPT !.alone = FALSE] ELSE hist[d]]
       IN  CallStep(c, loop_step(call, h, cursor, S, now, up), others)
    /\ UNCHANGED <<now, manager, threads, store, providers, marks, faults, lastOp>>

\* asyncio.sleep(0.5) returns: the loop goes on.
WakeUp(c, up) ==
    /\ NoneDone
    /\ calls[c].pc \in {"sleep", "loop"}
    /\ CanAcquire(c)
    /\ Backend(up)
    /\ LET S == [trackers |-> trackers, redis |-> redis]
       IN  CallStep(c, loop_step(calls[c], hist[c], cursor, S, now, up), hist)
    /\ UNCHANGED <<now, manager, threads, store, providers, started, marks, faults,
                   lastOp>>

\* The network call of c ends with `outcome`: lines 412-434, then 457 or
\* 459-477.
NetReturn(c, outcome, up) ==
    /\ NoneDone
    /\ calls[c].pc = "net"
    /\ CanAcquire(c)
    /\ Backend(up)
    /\ faults' = IF outcome = Ok THEN faults ELSE faults + 1
    /\ LET call == calls[c]
           config == providers[call.config]
           S == [trackers |-> trackers, redis |-> redis]
           r == try_provider_return(S, config, outcome, now, up)
           f == attempt_failed(call, hist[c], r.error, cursor)
       IN  /\ IF r.ok
              THEN CallStep(c,
                       [call |-> [call EXCEPT !.pc = "done",
                                      !.result = Response(config.name)],
                        h |-> [hist[c] EXCEPT !.retCursor =
                                                 idx_after_success(cursor)],
                        cursor |-> idx_after_success(cursor), S |-> S,
                        dispatched |-> FALSE],
                       hist)
              ELSE CallStep(c,
                       [call |-> f.call, h |-> f.h, cursor |-> f.cursor,
                        S |-> r.S, dispatched |-> FALSE],
                       hist)
           /\ marks' = IF r.marked = 0 THEN marks
                       ELSE Marked(marks, config.name, r.marked, now)
    /\ UNCHANGED <<now, manager, threads, store, providers, started, lastOp>>

\* The caller receives the response or the aggregate error.
Return(c) ==
    /\ calls[c].pc = "done"
    /\ calls' = [calls EXCEPT ![c] = IdleCall]
    /\ hist' = [hist EXCEPT ![c] = NoHist]
    /\ UNCHANGED <<now, manager, threads, store, providers, cursor, trackers, redis,
                   started, marks, recorded, faults, outages, lastOp>>

\* Time passes; the Redis server drops the keys that expire.
Tick ==
    /\ NoneDone
    /\ now' = now + TimeStep
    /\ redis' = redis_expire_keys(redis, now')
    /\ UNCHANGED <<manager, threads, store, providers, cursor, trackers, calls,
                   started, hist, marks, recorded, faults, outages, served,
                   lastOp>>

-----------------------------------------------------------------------------
(* The manager under test configurations: provider lists with small limits  *)
(* so that the ceilings are reached, over either store.                     *)

OneProvider == <<ProviderConfig("openrouter", 2, 0)>>

TwoProviders ==
    <<ProviderConfig("openrouter", 1, 2), ProviderConfig("openai", 0, 0)>>

Setups ==
    { <<OneProvider, "memory">>, <<TwoProviders, "memory">>,
      <<OneProvider, "redis">> }

\* No thread is inside get_tracker, its lock is free, no UsageTracker object
\* was made.  `made` lists the key of every object in order of creation (an
\* object is known by its position), `ids` tells which object the dict
\* holds under each key.
IdleThread == [pc |-> "idle", key |-> "", tracker |-> 0, locked |-> FALSE]

NoThreads ==
    [th |-> [t \in Threads |-> IdleThread], lock |-> 0, made |-> <<>>,
     ids |-> [k \in {} |-> 0]]

NoOp == [op |-> "none", config |-> 0, duration |-> 0, ret |-> FALSE,
         fellback |-> FALSE,
         raised |-> FALSE, up |-> TRUE, at |-> 0,
         pre |-> [trackers |-> EmptyMap, redis |-> EmptyMap]]

InitWith(status, configs, kind) ==
    /\ now = 0
    /\ manager = status
    /\ store = kind
    /\ providers = configs
    /\ cursor = 0
    /\ trackers = EmptyMap
    /\ redis = EmptyMap
    /\ calls = [c \in Slots |-> IdleCall]
    /\ started = 0
    /\ hist = [c \in Slots |-> NoHist]
    /\ marks = [nm \in {configs[i].name : i \in 1..Len(configs)} |->
                    [until429 |-> 0, until5xx |-> 0, until |-> 0]]
    /\ recorded = [nm \in {configs[i].name : i \in 1..Len(configs)} |-> <<>>]
    /\ faults = 0
    /\ outages = 0
    /\ served = <<>>
    /\ lastOp = NoOp
    /\ threads = NoThreads

Init == \E setup \in Setups : InitWith("ok", setup[1], setup[2])

Next ==
    \/ \E c \in Slots, up \in BOOLEAN :
          /\ started < MaxStarts
          /\ StartCall(c, NoModel, up)
          /\ outages' <= MaxOutages
          /\ UNCHANGED served
    \/ \E c \in Slots, up \in BOOLEAN :
          /\ WakeUp(c, up)
          /\ outages' <= MaxOutages
          /\ UNCHANGED served
    \/ \E c \in Slots, outcome \in NetOutcomes, up \in BOOLEAN :
          /\ NetReturn(c, outcome, up)
          /\ faults' <= MaxFaults
          /\ outages' <= MaxOutages
          /\ UNCHANGED served
    \/ \E c \in Slots : Return(c) /\ UNCHANGED served
    \/ now + TimeStep <= MaxTime /\ Tick

Spec == Init /\ [][Next]_vars

-----------------------------------------------------------------------------
(* Calls made one after the other, every network call succeeding, on three  *)
(* providers of which the first two allow one request per minute.           *)

ScenarioProviders ==
    <<ProviderConfig("openrouter", 1, 0), ProviderConfig("groq", 1, 0),
      ProviderConfig("openai", 0, 0)>>

NetNames(c) == [j \in 1..Len(hist[c].nets) |-> providers[hist[c].nets[j]].name]

InitScenario == InitWith("ok", ScenarioProviders, "memory")

NextScenario ==
    \/ /\ started < ScenarioCalls
       /\ StartCall(1, NoModel, TRUE)
       /\ served' = Append(served, [start |-> now, end |-> None,
                                    provider |-> "", nets |-> <<>>])
    \/ WakeUp(1, TRUE) /\ UNCHANGED served
    \/ NetReturn(1, Ok, TRUE) /\ UNCHANGED served
    \/ /\ Return(1)
       /\ served' = [served EXCEPT ![Len(served)] =
                        [start |-> @.start, end |-> now,
                         provider |-> calls[1].result.provider,
                         nets |-> NetNames(1)]]
    \/ now + TimeStep <= ScenarioMaxTime /\ Tick

SpecScenario == InitScenario /\ [][NextScenario]_vars

-----------------------------------------------------------------------------
(* The manager as built from the settings, its calls made one after the     *)
(* other.                                                                   *)

\* The providers in the order the code appends them, with their limits.
KnownProviders ==
    <<ProviderConfig("openrouter", 20, 200), ProviderConfig("groq", 30, 14400),
      ProviderConfig("google_studio", 15, 1500),
      ProviderConfig("cerebras", 30, 0), ProviderConfig("openai", 0, 0)>>

\* A constructor that accepts an empty provider list.
initialize_providers_unchecked(keys) ==
    LET has_key(config) == config.name \in keys
    IN  [status |-> "ok", providers |-> SelectSeq(KnownProviders, has_key)]

\* _initialize_providers, from the set of providers whose API key is set.
initialize_providers(keys) ==
    LET has_key(config) == config.name \in keys
        found == SelectSeq(KnownProviders, has_key)
    IN  IF found = <<>>
        THEN [status |-> "ValueError", providers |-> <<>>]
        ELSE [status |-> "ok", providers |-> found]

KeyChoices == SUBSET {"groq", "openai"}

InitSettings ==
    \E keys \in KeyChoices :
        InitWith(initialize_providers(keys).status,
                 initialize_providers(keys).providers, "memory")

NextSettings ==
    \/ \E kwargs \in CallerModels :
          /\ started < MaxStarts
          /\ StartCall(1, kwargs, TRUE)
          /\ UNCHANGED served
    \/ WakeUp(1, TRUE) /\ UNCHANGED served
    \/ \E outcome \in NetOutcomes :
          /\ NetReturn(1, outcome, TRUE)
          /\ faults' <= MaxFaults
          /\ UNCHANGED served
    \/ Return(1) /\ UNCHANGED served
    \/ now + TimeStep <= MaxTime /\ Tick

SpecSettings == InitSettings /\ [][NextSettings]_vars

-----------------------------------------------------------------------------
(* ProviderManager.get_usage_stats, called between calls made one after the *)
(* other, over either store.                                                *)

\* Lines 486-492: the entry of one provider, and the tracker it leaves.
stats_entry(S, config, t) ==
    LET trs == get_tracker(S.trackers, config.name)
        c == get_counts(trs[config.name], t)
        f == is_failed(c.tracker, t)
    IN  [tracker |-> f.tracker,
         entry |-> [requests_last_minute |-> c.minute,
                    requests_last_day |-> c.day,
                    is_failed |-> f.ret]]

\* Lines 479-494: the loop fills the entry of a provider only when the
\* store is an InMemoryStore.
get_usage_stats(S, t) ==
    LET names == {providers[i].name : i \in 1..Len(providers)}
        config(nm) == CHOOSE cf \in {providers[i] : i \in 1..Len(providers)} :
                         cf.name = nm
    IN  IF store = "memory"
        THEN [S |-> [S EXCEPT !.trackers =
                        [nm \in names |-> stats_entry(S, config(nm), t).tracker]
                        @@ S.trackers],
              ret |-> [nm \in names |-> stats_entry(S, config(nm), t).entry]]
        ELSE [S |-> S, ret |-> EmptyMap]

GetUsageStats ==
    /\ manager = "ok"
    /\ NoneDone
    /\ LET r == get_usage_stats([trackers |-> trackers, redis |-> redis], now)
       IN  /\ trackers' = r.S.trackers
           /\ lastOp' = [NoOp EXCEPT !.op = "get_usage_stats", !.ret = r.ret,
                                     !.at = now]
    /\ UNCHANGED <<now, manager, threads, store, providers, cursor, redis, calls,
                   started, hist, marks, recorded, faults, outages, served>>

InitStats == \E setup \in Setups : InitWith("ok", setup[1], setup[2])

NextStats ==
    \/ started < MaxStarts /\ StartCall(1, NoModel, TRUE) /\ UNCHANGED served
    \/ WakeUp(1, TRUE) /\ UNCHANGED served
    \/ \E outcome \in NetOutcomes :
          /\ NetReturn(1, outcome, TRUE)
          /\ faults' <= MaxFaults
          /\ UNCHANGED served
    \/ Return(1) /\ UNCHANGED served
    \/ GetUsageStats
    \/ now + TimeStep <= MaxTime /\ Tick

SpecStats == InitStats /\ [][NextStats]_vars

-----------------------------------------------------------------------------
(* LLMClient.create_streaming_completion: create_completion with the stream *)
(* flag set; the response it returns is a stream the caller reads chunk by  *)
(* chunk.  `served` holds the streaming calls that returned and how far the *)
(* caller has read.                                                         *)

\* A manager that treats a failure of a stream being read as a failed
\* attempt: cooldown and cursor advance.
mid_stream_failure_failover(M, i, t) ==
    [cursor |-> next_provider_idx(M.cursor, Len(providers)),
     S |-> pm_mark_provider_failed(M.S, providers[i], t,
                                   ServerErrorCooldown, TRUE).S]

\* Lines 527-528: the coroutine has returned the stream; an error raised
\* while the caller iterates it runs no code of the manager.
mid_stream_failure(M, i, t) == M

NoStream == [config |-> 0, state |-> "error", chunks |-> 0]

\* The caller receives the stream, or the aggregate error.
BeginStream(c) ==
    /\ Return(c)
    /\ served' = Append(served,
                    IF calls[c].result.kind = "response"
                    THEN [config |-> calls[c].config, state |-> "open",
                          chunks |-> 0]
                    ELSE NoStream)

\* The caller reads one more chunk of stream k.
ReadChunk(k) ==
    /\ served[k].state = "open"
    /\ served' = [served EXCEPT ![k].chunks = @ + 1]
    /\ UNCHANGED <<now, manager, threads, store, providers, cursor, trackers, redis,
                   calls, started, hist, marks, recorded, faults, outages,
                   lastOp>>

\* Stream k is exhausted.
StreamEnds(k) ==
    /\ served[k].state = "open"
    /\ served' = [served EXCEPT ![k].state = "ended"]
    /\ UNCHANGED <<now, manager, threads, store, providers, cursor, trackers, redis,
                   calls, started, hist, marks, recorded, faults, outages,
                   lastOp>>

\* Reading stream k raises.
StreamFails(k) ==
    /\ served[k].state = "open"
    /\ NoneDone
    /\ served' = [served EXCEPT ![k].state = "failed"]
    /\ LET m == mid_stream_failure(
                    [cursor |-> cursor,
                     S |-> [trackers |-> trackers, redis |-> redis]],
                    served[k].config, now)
       IN  /\ cursor' = m.cursor
           /\ trackers' = m.S.trackers
           /\ redis' = m.S.redis
    /\ UNCHANGED <<now, manager, threads, store, providers, calls, started, hist,
                   marks, recorded, faults, outages, lastOp>>

InitStream == \E setup \in Setups : InitWith("ok", setup[1], setup[2])

NextStream ==
    \/ started < MaxStreams /\ StartCall(1, NoModel, TRUE) /\ UNCHANGED served
    \/ WakeUp(1, TRUE) /\ UNCHANGED served
    \/ \E outcome \in NetOutcomes :
          /\ NetReturn(1, outcome, TRUE)
          /\ faults' <= MaxFaults
          /\ UNCHANGED served
    \/ BeginStream(1)
    \/ \E k \in 1..Len(served) : served[k].chunks < MaxChunks /\ ReadChunk(k)
    \/ \E k \in 1..Len(served) : StreamEnds(k)
    \/ \E k \in 1..Len(served) : StreamFails(k)
    \/ now + TimeStep <= MaxTime /\ Tick

SpecStream == InitStream /\ [][NextStream]_vars

-----------------------------------------------------------------------------
(* RedisStore driven directly by a client: each action is one operation.    *)
(* The commands of one operation either all reach the server or all fail.   *)

StoreState == [trackers |-> trackers, redis |-> redis]

StoreStep(op, i, duration, r, up) ==
    /\ started' = started + 1
    /\ trackers' = r.S.trackers
    /\ redis' = r.S.redis
    /\ lastOp' = [op |-> op, config |-> i, duration |-> duration,
                  ret |-> r.ret, fellback |-> r.fellback,
                  raised |-> r.raised, up |-> up, at |-> now,
                  pre |-> StoreState]
    /\ outages' = IF up THEN outages ELSE outages + 1
    /\ UNCHANGED <<now, manager, threads, store, providers, cursor, calls, hist,
                   faults, served>>

OpCheckRateLimit(i, up) ==
    /\ StoreStep("check_rate_limit", i, 0,
                 check_rate_limit(StoreState, providers[i], now, up), up)
    /\ UNCHANGED <<recorded, marks>>

OpIncrementUsage(i, up) ==
    LET r == increment_usage(StoreState, providers[i], now, up)
    IN  /\ StoreStep("increment_usage", i, 0, r, up)
        /\ recorded' = IF r.raised THEN recorded
                       ELSE [recorded EXCEPT ![providers[i].name] =
                                                Append(@, now)]
        /\ UNCHANGED marks

OpMarkProviderFailed(i, duration, up) ==
    /\ StoreStep("mark_provider_failed", i, duration,
                 mark_provider_failed(StoreState, providers[i].name, now,
                                      duration, up), up)
    /\ marks' = Marked(marks, providers[i].name, duration, now)
    /\ UNCHANGED recorded

OpIsProviderFailed(i, up) ==
    /\ StoreStep("is_provider_failed", i, 0,
                 is_provider_failed(StoreState, providers[i].name, now, up),
                 up)
    /\ UNCHANGED <<recorded, marks>>

InitStore == InitWith("ok", TwoProviders, "redis")

NextStore ==
    \/ \E i \in 1..Len(providers), up \in BOOLEAN :
          started < MaxStoreOps /\ OpCheckRateLimit(i, up)
    \/ \E i \in 1..Len(providers), up \in BOOLEAN :
          started < MaxStoreOps /\ OpIncrementUsage(i, up)
    \/ \E i \in 1..Len(providers), up \in BOOLEAN,
          duration \in {RateLimitCooldown, ServerErrorCooldown} :
          started < MaxStoreOps /\ OpMarkProviderFailed(i, duration, up)
    \/ \E i \in 1..Len(providers), up \in BOOLEAN :
          started < MaxStoreOps /\ OpIsProviderFailed(i, up)
    \/ now + TimeStep <= MaxTime /\ Tick

SpecStore == InitStore /\ [][NextStore]_vars

\* Increments and checks on a reachable server, for a provider with both
\* ceilings set, high enough for a counter to outlive its first requests.
LimitedProvider == <<ProviderConfig("openrouter", 3, 4)>>

InitVariants == InitWith("ok", LimitedProvider, "redis")

NextVariants ==
    \/ started < MaxVariantOps /\ OpIncrementUsage(1, TRUE)
    \/ started < MaxVariantOps /\ OpCheckRateLimit(1, TRUE)
    \/ now + TimeStep <= MaxTime /\ Tick

SpecVariants == InitVariants /\ [][NextVariants]_vars

-----------------------------------------------------------------------------
(* Properties of create_completion under Spec                               *)

Done(c) == calls[c].pc = "done"

\* The provider attempted in the j-th attempt of a call that started with
\* the cursor at `start` and ran alone.
NthProvider(start, j) == ((start + j - 1) % Len(providers)) + 1

\* C1: a call that runs with no other call in flight and succeeds on its
\* k-th attempt (k <= N) has attempted the providers in cursor order, returns
\* the response of the k-th of them, and leaves the cursor on that provider.
C1_SuccessKeepsCursor ==
    \A c \in Slots :
        (Done(c) /\ calls[c].result.kind = "response" /\ hist[c].alone)
        => LET k == Len(hist[c].tried)
               served_by == hist[c].tried[k]
           IN  /\ 1 <= k /\ k <= Len(providers)
               /\ \A j \in 1..k :
                     hist[c].tried[j] = NthProvider(hist[c].startCursor, j)
               /\ hist[c].nets[Len(hist[c].nets)] = served_by
               /\ calls[c].result.provider = providers[served_by].name
               /\ cursor = served_by - 1
               /\ hist[c].retCursor = served_by - 1

\* A lone call succeeded on its second attempt.
C1_Witness ==
    \E c \in Slots :
        /\ Done(c) /\ calls[c].result.kind = "response" /\ hist[c].alone
        /\ Len(hist[c].tried) = 2

\* C2: a call never makes more than N attempts; a call that ends without a
\* response has made exactly N attempts, slept exactly N-1 times, never after
\* the last attempt, and raises the one aggregate error.
C2_AllFail ==
    \A c \in Slots :
        LET n == Len(providers)
        IN  /\ Len(hist[c].tried) <= n
            /\ calls[c].pc = "sleep" => Len(hist[c].tried) < n
            /\ (Done(c) /\ calls[c].result.kind /= "response")
               => /\ calls[c].result.kind = "all_failed"
                  /\ calls[c].result.n = n
                  /\ Len(hist[c].tried) = n
                  /\ hist[c].sleeps = n - 1

\* Both providers of a two-provider manager failed.
C2_Witness ==
    \E c \in Slots :
        /\ Done(c) /\ calls[c].result.kind = "all_failed"
        /\ Len(providers) = 2 /\ hist[c].sleeps = 1

\* C10: a caller gets a response, or the aggregate error carrying the error
\* of the last, N-th, attempt; no error of a single attempt escapes, and a
\* call that is not over has no result.
C10_OneOutcome ==
    \A c \in Slots :
        /\ ~Done(c) => calls[c].result = NoResult
        /\ Done(c) =>
             \/ calls[c].result.kind = "response"
             \/ /\ calls[c].result.kind = "all_failed"
                /\ Len(hist[c].tried) = Len(providers)
                /\ hist[c].lastErr /= NoError
                /\ calls[c].result.last = hist[c].lastErr

\* The aggregate error wraps a transport error of the last attempt.
C10_Witness ==
    \E c \in Slots :
        /\ Done(c) /\ calls[c].result.kind = "all_failed"
        /\ calls[c].result.last.type = "TimeoutError"
        /\ Len(hist[c].tried) = 2

\* Number of timestamps of ts that lie within [t - w, t].
InWindow(ts, t, w) == Cardinality({i \in 1..Len(ts) : t - ts[i] <= w})

CheckNow(i) ==
    pm_check_rate_limit([trackers |-> trackers, redis |-> redis],
                        providers[i], now, TRUE).ret

Dispatches(c) == calls[c].pc /= "net" /\ calls'[c].pc = "net"

DispatchedTo(c) == providers[calls'[c].config].name

\* C3: with the in-memory store, once a provider is marked failed for d
\* seconds, no attempt issues a network call to it before the d seconds have
\* elapsed.
C3_CooldownKept ==
    [][store = "memory" =>
         \A c \in Slots :
            Dispatches(c) => /\ now >= marks[DispatchedTo(c)].until429
                             /\ now >= marks[DispatchedTo(c)].until5xx]_vars

\* C7: after a network call to a provider failed with a 429 or a rate-limit
\* error, no attempt issues a network call to it during the next 60 seconds.
C7_RateLimitCooldown ==
    [][\A c \in Slots :
          Dispatches(c) => now >= marks[DispatchedTo(c)].until429]_vars

\* C8: after a network call to a provider failed with a status >= 500, no
\* attempt issues a network call to it during the next 300 seconds, whatever
\* the calls in flight (stated for the in-memory store).
C8_ServerErrorCooldown ==
    [][store = "memory" =>
         \A c \in Slots :
            Dispatches(c) => now >= marks[DispatchedTo(c)].until5xx]_vars

-----------------------------------------------------------------------------
(* Properties of the sequential scenario under SpecScenario                 *)

Completed(i) == Len(served) >= i /\ served[i].end /= None

\* The first three calls all ran within one minute window.
InOneWindow == Completed(3) /\ served[3].end - served[1].start <= MinuteWindow

\* The fourth call was issued after the window of the first three elapsed.
FourthAfterWindow ==
    /\ InOneWindow /\ Completed(4)
    /\ served[4].start - served[3].end > MinuteWindow

FirstThreeCalls ==
    /\ Completed(1) =>
          served[1].provider = "openrouter" /\ served[1].nets = <<"openrouter">>
    /\ (Completed(2) /\ served[2].end - served[1].start <= MinuteWindow) =>
          served[2].provider = "groq" /\ served[2].nets = <<"groq">>
    /\ InOneWindow =>
          served[3].provider = "openai" /\ served[3].nets = <<"openai">>

\* C5 as stated: call 1 is served by A, call 2 by B without a network call
\* to A, call 3 by C without a network call to A or B, and call 4, issued
\* after the minute window has elapsed, is served by A.
C5_FourthReturnsToFirst ==
    /\ FirstThreeCalls
    /\ FourthAfterWindow => served[4].provider = "openrouter"

\* C5, amended: calls 1 to 3 as stated; call 4, issued after the minute
\* window has elapsed, starts at the cursor left on C and is served by C
\* with no network call to A or B.
C5_FourthStaysOnLast ==
    /\ FirstThreeCalls
    /\ FourthAfterWindow =>
          served[4].provider = "openai" /\ served[4].nets = <<"openai">>

\* The four calls of the scenario are over, the fourth after the window.
C5_Witness == FourthAfterWindow /\ cursor = 2

-----------------------------------------------------------------------------
(* Properties of RedisStore under SpecStore                                 *)

\* The operation issues at least one command to the server.
StoreTouches(o) ==
    \/ o.op \in {"mark_provider_failed", "is_provider_failed"}
    \/ providers[o.config].requests_per_minute /= 0
    \/ providers[o.config].requests_per_day /= 0

\* What the in-memory logic answers and records for the operation.
InMemoryLogic(o) ==
    LET config == providers[o.config]
    IN  CASE o.op = "check_rate_limit" ->
                mem_check_rate_limit(o.pre, config, o.at)
          [] o.op = "increment_usage" ->
                mem_increment_usage(o.pre, config, o.at)
          [] o.op = "mark_provider_failed" ->
                mem_mark_provider_failed(o.pre, config, o.at, o.duration)
          [] o.op = "is_provider_failed" ->
                mem_is_provider_failed(o.pre, config, o.at)

\* C6: none of the four operations of RedisStore raises; one that meets a
\* backend error answers and records what the in-memory logic does on the
\* local tracker for that call, and writes nothing to the backend; an
\* increment met by an unreachable backend appends the request to the local
\* tracker.
C6_FallsBackToMemory ==
    LET o == lastOp
    IN  o.op /= "none" =>
          /\ ~o.raised
          /\ (~o.up /\ StoreTouches(o)) =>
                /\ o.fellback
                /\ o.ret = InMemoryLogic(o).ret
                /\ trackers = InMemoryLogic(o).S.trackers
                /\ redis = redis_expire_keys(o.pre.redis, now)
                /\ o.op = "increment_usage" =>
                      LET name == providers[o.config].name
                          before == IF name \in DOMAIN o.pre.trackers
                                    THEN o.pre.trackers[name].minute_requests
                                    ELSE <<>>
                      IN  trackers[name].minute_requests
                             = Append(before, o.at)

\* An increment met an unreachable backend and was recorded locally.
C6_Witness ==
    /\ lastOp.op = "increment_usage" /\ ~lastOp.up /\ lastOp.fellback
    /\ StoreTouches(lastOp)
    /\ trackers[providers[lastOp.config].name].minute_requests /= <<>>

-----------------------------------------------------------------------------
(* Properties of the construction under SpecSettings                        *)

\* C9: the construction fails exactly when no provider is configured, and
\* then no call ever runs; a call never runs on an empty provider list and
\* never reports an aggregate failure over zero providers.
C9_NoEmptyManager ==
    /\ manager = "ValueError" <=> providers = <<>>
    /\ manager = "ValueError" =>
          started = 0 /\ \A c \in Slots : calls[c] = IdleCall
    /\ \A c \in Slots :
          /\ calls[c].pc /= "idle" => Len(providers) >= 1
          /\ (Done(c) /\ calls[c].result.kind = "all_failed") =>
                calls[c].result.n >= 1

\* No provider has a key, time passes and no call has run.
C9_Witness == manager = "ValueError" /\ providers = <<>> /\ now > 0

\* C11: in RedisStore, after mark_provider_failed(p, d), is_provider_failed(p)
\* answers true at every time before the d seconds of the last mark have
\* elapsed, whether or not the server was reachable at either operation.
C11_CooldownAcrossOutage ==
    LET o == lastOp
    IN  (/\ o.op = "is_provider_failed"
         /\ o.at < marks[providers[o.config].name].until) => o.ret

\* A tracker that holds the timestamps ts in both windows.
Replay(ts) == [NewTracker EXCEPT !.minute_requests = ts, !.day_requests = ts]

\* What the in-memory sliding window answers at t after the increments that
\* were recorded for providers[i].
SlidingWindowAnswer(i, t) ==
    mem_check_rate_limit(
        [trackers |-> (providers[i].name :> Replay(recorded[providers[i].name])),
         redis |-> EmptyMap],
        providers[i], t).ret

\* C12: with a reachable server and both ceilings set, check_rate_limit of
\* RedisStore answers what the in-memory sliding window answers after the
\* same increments at the same times.
C12_SameAnswerAsSlidingWindow ==
    LET o == lastOp
    IN  (/\ o.op = "check_rate_limit"
         /\ outages = 0
         /\ providers[o.config].requests_per_minute /= 0
         /\ providers[o.config].requests_per_day /= 0)
        => o.ret = SlidingWindowAnswer(o.config, o.at)

\* The times at which a later operation may look at the store.
Later == {now + k * TimeStep : k \in 0..2}

\* What the readers of the store answer for providers[i] at t from state S.
Observe(S, i, t, up) ==
    LET config == providers[i]
        c == get_counts(get_tracker(S.trackers, config.name)[config.name], t)
    IN  [minute |-> c.minute, day |-> c.day,
         check |-> check_rate_limit(S, config, t, up).ret,
         mem_check |-> mem_check_rate_limit(S, config, t).ret,
         failed |-> is_provider_failed(S, config.name, t, up).ret,
         mem_failed |-> mem_is_provider_failed(S, config, t).ret]

FailedUntil(S, name) == get_tracker(S.trackers, name)[name].failed_until

Requests(S, name) == get_tracker(S.trackers, name)[name].day_requests

\* C13: a rate-limit check, of either store and whether or not the server
\* is reachable, records no request, leaves every cooldown as it is, and
\* leaves a store from which every later count, rate-limit check and
\* cooldown query answers as it would have without the check.
C13_CheckHasNoEffect ==
    \A i \in 1..Len(providers), up \in BOOLEAN :
        LET name == providers[i].name
            after == {check_rate_limit(StoreState, providers[i], now, up).S,
                      mem_check_rate_limit(StoreState, providers[i], now).S}
        IN  \A S \in after :
               /\ S.redis = redis
               /\ FailedUntil(S, name) = FailedUntil(StoreState, name)
               /\ Len(Requests(S, name)) <= Len(Requests(StoreState, name))
               /\ \A t \in Later, up2 \in BOOLEAN :
                     Observe(S, i, t, up2) = Observe(StoreState, i, t, up2)

\* A check that fell back to the local tracker purged an old request.
C13_Witness ==
    LET o == lastOp
        name == providers[o.config].name
    IN  /\ o.op = "check_rate_limit" /\ o.fellback
        /\ name \in DOMAIN o.pre.trackers
        /\ Len(trackers[name].minute_requests)
              < Len(o.pre.trackers[name].minute_requests)

-----------------------------------------------------------------------------
(* Properties of _try_provider under Spec                                   *)

\* The network call of c ends in this step.
NetEnds(c) == calls[c].pc = "net" /\ calls'[c].pc /= "net"

\* Every request the store holds: the timestamps of the trackers (none for
\* a provider whose tracker does not exist yet) and the counters of the
\* server.
UsageCounters ==
    [tracked |-> [nm \in DOMAIN trackers |->
                     <<trackers[nm].minute_requests,
                       trackers[nm].day_requests>>]
                 @@ [nm \in DOMAIN marks |-> <<<<>>, <<>>>>],
     counted |-> [k \in {key \in DOMAIN redis : key[2] \in {"rpm", "rpd"}} |->
                     redis[k]]]

\* Every cooldown the store holds.
Cooldowns ==
    [tracked |-> [nm \in DOMAIN trackers |-> trackers[nm].failed_until]
                 @@ [nm \in DOMAIN marks |-> None],
     keyed |-> [k \in {key \in DOMAIN redis : key[2] = "failed"} |->
                   redis[k]]]

Occurrences(ts, t) == Cardinality({j \in 1..Len(ts) : ts[j] = t})

\* The step has recorded one request at `now` for the provider c is
\* dispatched to: in its tracker, or in the counters of the server for the
\* ceilings that are set (RedisStore counts nothing for a provider without
\* ceilings).
Charged(c) ==
    LET config == providers[calls'[c].config]
        nm == config.name
        before == IF nm \in DOMAIN trackers
                  THEN trackers[nm].day_requests ELSE <<>>
        rpm == get_redis_key(nm, "rpm")
        rpd == get_redis_key(nm, "rpd")
    IN  \/ /\ nm \in DOMAIN trackers'
           /\ Occurrences(trackers'[nm].day_requests, now)
                 = Occurrences(before, now) + 1
           /\ Occurrences(trackers'[nm].minute_requests, now)
                 = Occurrences(before, now) + 1
        \/ /\ store = "redis"
           /\ config.requests_per_minute /= 0 =>
                 /\ rpm \in DOMAIN redis'
                 /\ redis'[rpm].v = redis_get(redis, rpm, now) + 1
           /\ config.requests_per_day /= 0 =>
                 /\ rpd \in DOMAIN redis'
                 /\ redis'[rpd].v = redis_get(redis, rpd, now) + 1

\* C14: the step that issues a network call has recorded the request, and
\* the step in which the network call ends, whatever its outcome, leaves
\* every recorded request in place.
C14_ChargedBeforeAndKept ==
    [][\A c \in Slots :
          /\ Dispatches(c) => Charged(c)
          /\ NetEnds(c) => UsageCounters' = UsageCounters]_vars

\* A network call timed out and its request is still in the tracker.
C14_Witness ==
    \E c \in Slots :
        /\ store = "memory" /\ calls[c].pc = "sleep"
        /\ hist[c].lastErr.type = "TimeoutError"
        /\ hist[c].nets /= <<>>
        /\ LET nm == providers[hist[c].nets[Len(hist[c].nets)]].name
           IN  Occurrences(trackers[nm].minute_requests, now) >= 1

\* An error that is neither a rate-limit signal nor a server error.
OtherError(e) ==
    /\ e /= NoError
    /\ e.type /= "RateLimitError"
    /\ ~(e.has_status /\ (e.status_code = 429 \/ e.status_code >= 500))

-----------------------------------------------------------------------------
(* Properties of get_usage_stats under SpecStats                            *)

\* C16: the snapshot get_usage_stats returns has, for every configured
\* provider, an entry with its minute count, its day count and its failed
\* flag, with either store.
C16_StatsForEveryProvider ==
    lastOp.op = "get_usage_stats" =>
        /\ DOMAIN lastOp.ret = {providers[i].name : i \in 1..Len(providers)}
        /\ \A nm \in DOMAIN lastOp.ret :
              DOMAIN lastOp.ret[nm] =
                 {"requests_last_minute", "requests_last_day", "is_failed"}

-----------------------------------------------------------------------------
(* Properties of create_streaming_completion under SpecStream               *)

-----------------------------------------------------------------------------
(* Properties of the forwarded request under SpecSettings                   *)

\* C18: the request of every network call carries the model the caller
\* gave, or else the default model of the provider of that attempt, and the
\* arguments the call keeps for its next attempts are those the caller gave.
C18_ModelPerAttempt ==
    \A c \in Slots :
        /\ calls[c].pc /= "idle" => calls[c].kwargs = hist[c].model
        /\ calls[c].pc = "net" =>
              calls[c].request =
                 IF hist[c].model = NoModel
                 THEN providers[calls[c].config].model
                 ELSE hist[c].model

\* After a failed network call to the first provider, the request to the
\* second one carries the default model of the second.
C18_Witness ==
    \E c \in Slots :
        /\ calls[c].pc = "net" /\ hist[c].model = NoModel
        /\ hist[c].nets = <<1, 2>>
        /\ calls[c].request = providers[2].model
        /\ providers[1].model /= providers[2].model

-----------------------------------------------------------------------------
(* Overlapping calls on two providers with the in-memory store.             *)

OverlapStarts == 2
OverlapFaults == 1
OverlapMaxTime == 30

InitOverlap == InitWith("ok", TwoProviders, "memory")

NextOverlap ==
    \/ \E c \in Slots :
          /\ started < OverlapStarts
          /\ StartCall(c, NoModel, TRUE)
          /\ UNCHANGED served
    \/ \E c \in Slots : WakeUp(c, TRUE) /\ UNCHANGED served
    \/ \E c \in Slots, outcome \in NetOutcomes :
          /\ NetReturn(c, outcome, TRUE)
          /\ faults' <= OverlapFaults
          /\ UNCHANGED served
    \/ \E c \in Slots : Return(c) /\ UNCHANGED served
    \/ now + TimeStep <= OverlapMaxTime /\ Tick

SpecOverlap == InitOverlap /\ [][NextOverlap]_vars

-----------------------------------------------------------------------------
(* Properties of overlapping calls                                          *)

C20_OnePassPerCall ==
    \A c \in Slots :
        /\ \A i, j \in 1..Len(hist[c].tried) :
               hist[c].tried[i] = hist[c].tried[j] => i = j
        /\ (calls[c].pc = "done" /\ calls[c].result.kind = "all_failed") =>
               {hist[c].tried[i] : i \in 1..Len(hist[c].tried)}
                   = 1..Len(providers)

-----------------------------------------------------------------------------
(* One UsageTracker driven directly: requests are recorded and counts are   *)
(* read at non-decreasing times that span more than a day.                  *)

MaxRecords == 3             \* requests recorded over a behaviour
TrackerMaxTime == 86490     \* the clock of the tracker stops here

TrackedProvider == OneProvider[1].name

\* The clock moves by a step or by a day.
TimeSteps == {TimeStep, DayWindow}

\* tracker.add_request(time.time())
RecordRequest ==
    /\ Len(recorded[TrackedProvider]) < MaxRecords
    /\ LET trs == get_tracker(trackers, TrackedProvider)
       IN  trackers' = [trs EXCEPT ![TrackedProvider] = add_request(@, now)]
    /\ recorded' = [recorded EXCEPT ![TrackedProvider] = Append(@, now)]
    /\ lastOp' = [NoOp EXCEPT !.op = "add_request", !.at = now]
    /\ UNCHANGED <<now, manager, threads, store, providers, cursor, redis, calls,
                   started, hist, marks, faults, outages, served>>

\* tracker.get_counts(time.time())
GetCounts ==
    /\ LET trs == get_tracker(trackers, TrackedProvider)
           c == get_counts(trs[TrackedProvider], now)
       IN  /\ trackers' = [trs EXCEPT ![TrackedProvider] = c.tracker]
           /\ lastOp' = [NoOp EXCEPT !.op = "get_counts", !.at = now,
                                     !.ret = <<c.minute, c.day>>]
    /\ UNCHANGED <<now, manager, threads, store, providers, cursor, redis, calls,
                   started, recorded, hist, marks, faults, outages, served>>

Advance(d) ==
    /\ now + d <= TrackerMaxTime
    /\ (now % DayWindow) + (d % DayWindow) <= MaxTime
    /\ now' = now + d
    /\ UNCHANGED <<manager, threads, store, providers, cursor, trackers, redis, calls,
                   started, hist, marks, recorded, faults, outages, served,
                   lastOp>>

InitTracker == InitWith("ok", OneProvider, "memory")

NextTracker ==
    \/ RecordRequest
    \/ GetCounts
    \/ \E d \in TimeSteps : Advance(d)

SpecTracker == InitTracker /\ [][NextTracker]_vars

-----------------------------------------------------------------------------
(* The in-memory store driven directly, on providers with every            *)
(* combination of set and unset ceilings; requests are recorded without    *)
(* admission, so the counts go past the ceilings.                          *)

MaxLimitOps == 4    \* checks and increments over a behaviour

CeilingProviders ==
    <<ProviderConfig("openai", 0, 0), ProviderConfig("cerebras", 2, 0),
      ProviderConfig("groq", 0, 2), ProviderConfig("openrouter", 1, 2)>>

MemCheckRateLimit(i) ==
    /\ StoreStep("check_rate_limit", i, 0,
                 pm_check_rate_limit(StoreState, providers[i], now, TRUE),
                 TRUE)
    /\ UNCHANGED <<recorded, marks>>

MemIncrementUsage(i) ==
    /\ StoreStep("increment_usage", i, 0,
                 pm_increment_usage(StoreState, providers[i], now, TRUE),
                 TRUE)
    /\ recorded' = [recorded EXCEPT ![providers[i].name] = Append(@, now)]
    /\ UNCHANGED marks

InitCeilings == InitWith("ok", CeilingProviders, "memory")

NextCeilings ==
    \/ \E i \in 1..Len(providers) :
          started < MaxLimitOps /\ MemCheckRateLimit(i)
    \/ \E i \in 1..Len(providers) :
          started < MaxLimitOps /\ MemIncrementUsage(i)
    \/ now + TimeStep <= MaxTime /\ Tick

SpecCeilings == InitCeilings /\ [][NextCeilings]_vars

-----------------------------------------------------------------------------
(* InMemoryStore.get_tracker called from several threads, one statement at  *)
(* a time: the first test (line 98), the lock (99), the second test (100),  *)
(* the creation (101), the release and the return (102).  Each thread then  *)
(* records one request on the object it was given.                          *)

\* A second test that always finds the key missing.
tracker_absent_assumed(trs, key) == TRUE

\* Line 100: if key not in self.trackers, with the lock held.
tracker_absent_under_lock(trs, key) == key \notin DOMAIN trs

ThreadStep(t, new) ==
    /\ threads' = [threads EXCEPT !.th[t] = new]
    /\ UNCHANGED <<now, manager, store, providers, cursor, trackers, redis,
                   calls, started, hist, marks, recorded, faults, outages,
                   served, lastOp>>

\* Lines 97-98: key = provider.value; if key not in self.trackers.
EnterGetTracker(t, i) ==
    LET key == providers[i].name
    IN  /\ threads.th[t].pc = "idle"
        /\ ThreadStep(t, [threads.th[t] EXCEPT
                            !.key = key,
                            !.pc = IF key \notin DOMAIN trackers
                                   THEN "wait" ELSE "return"])

\* Line 99: with self.lock.
AcquireLock(t) ==
    /\ threads.th[t].pc = "wait"
    /\ threads.lock = 0
    /\ threads' = [threads EXCEPT !.lock = t, !.th[t].pc = "locked",
                                  !.th[t].locked = TRUE]
    /\ UNCHANGED <<now, manager, store, providers, cursor, trackers, redis,
                   calls, started, hist, marks, recorded, faults, outages,
                   served, lastOp>>

\* Line 100: the second test.
SecondCheck(t) ==
    /\ threads.th[t].pc = "locked"
    /\ ThreadStep(t, [threads.th[t] EXCEPT
                        !.pc = IF tracker_absent_under_lock(trackers,
                                                            threads.th[t].key)
                               THEN "create" ELSE "release"])

\* Line 101: self.trackers[key] = UsageTracker().
CreateTracker(t) ==
    LET key == threads.th[t].key
    IN  /\ threads.th[t].pc = "create"
        /\ threads' = [threads EXCEPT
                          !.th[t].pc = "release",
                          !.made = Append(@, key),
                          !.ids = (key :> Len(threads.made) + 1) @@ @]
        /\ trackers' = (key :> NewTracker) @@ trackers
        /\ UNCHANGED <<now, manager, store, providers, cursor, redis, calls,
                       started, hist, marks, recorded, faults, outages,
                       served, lastOp>>

\* The end of the with block.
ReleaseLock(t) ==
    /\ threads.th[t].pc = "release"
    /\ threads' = [threads EXCEPT !.lock = 0, !.th[t].pc = "return"]
    /\ UNCHANGED <<now, manager, store, providers, cursor, trackers, redis,
                   calls, started, hist, marks, recorded, faults, outages,
                   served, lastOp>>

\* Line 102: return self.trackers[key].
ReturnTracker(t) ==
    /\ threads.th[t].pc = "return"
    /\ ThreadStep(t, [threads.th[t] EXCEPT
                        !.pc = "got",
                        !.tracker = threads.ids[threads.th[t].key]])

\* The caller records a request on the object it was given
\* (tracker.add_request(time.time()), line 356): the store sees it only if
\* that object is the one its dict holds.
UseTracker(t) ==
    LET key == threads.th[t].key
    IN  /\ threads.th[t].pc = "got"
        /\ threads' = [threads EXCEPT !.th[t].pc = "used"]
        /\ trackers' = IF threads.ids[key] = threads.th[t].tracker
                       THEN [trackers EXCEPT ![key] = add_request(@, now)]
                       ELSE trackers
        /\ recorded' = [recorded EXCEPT ![key] = Append(@, now)]
        /\ UNCHANGED <<now, manager, store, providers, cursor, redis, calls,
                       started, hist, marks, faults, outages, served, lastOp>>

InitThreads == InitWith("ok", TwoProviders, "memory")

NextThreads ==
    \/ \E t \in Threads, i \in 1..Len(providers) : EnterGetTracker(t, i)
    \/ \E t \in Threads : AcquireLock(t)
    \/ \E t \in Threads : SecondCheck(t)
    \/ \E t \in Threads : CreateTracker(t)
    \/ \E t \in Threads : ReleaseLock(t)
    \/ \E t \in Threads : ReturnTracker(t)
    \/ \E t \in Threads : UseTracker(t)

SpecThreads == InitThreads /\ [][NextThreads]_vars

-----------------------------------------------------------------------------
(* Properties of the admission of an attempt under Spec                     *)

\* Call c makes an attempt in this step and the attempt issues no network
\* call.
RefusedAttempt(c) ==
    /\ Len(hist'[c].tried) = Len(hist[c].tried) + 1
    /\ hist'[c].nets = hist[c].nets

IsSuffix(q, full) ==
    Len(q) <= Len(full) /\ q = SubSeq(full, Len(full) - Len(q) + 1, Len(full))

\* The step adds no timestamp to a window and leaves the counters of the
\* server as they are (a count may purge old timestamps).
NoRequestAdded ==
    /\ \A nm \in DOMAIN marks :
          /\ IsSuffix(UsageCounters'.tracked[nm][1], UsageCounters.tracked[nm][1])
          /\ IsSuffix(UsageCounters'.tracked[nm][2], UsageCounters.tracked[nm][2])
    /\ UsageCounters'.counted = UsageCounters.counted

\* The step imposes no cooldown (is_failed may clear one that is over).
NoCooldownSet ==
    /\ \A nm \in DOMAIN marks :
          Cooldowns'.tracked[nm] \in {Cooldowns.tracked[nm], None}
    /\ Cooldowns'.keyed = Cooldowns.keyed

TrackerCooldown(nm) ==
    Cooldowns.tracked[nm] /= None /\ now < Cooldowns.tracked[nm]

KeyCooldown(nm) == redis_live(redis, get_redis_key(nm, "failed"), now)

\* The provider is in cooldown wherever the store may look.
InCooldown(nm) ==
    IF store = "memory" THEN TrackerCooldown(nm)
    ELSE TrackerCooldown(nm) /\ KeyCooldown(nm)

\* The provider is in cooldown nowhere the store may look.
NotInCooldown(nm) ==
    IF store = "memory" THEN ~TrackerCooldown(nm)
    ELSE ~TrackerCooldown(nm) /\ ~KeyCooldown(nm)

\* C21: an attempt refused at admission issues no network call, records no
\* request, imposes no cooldown and moves the cursor on by one; the
\* cooldown is consulted before the rate limit, so a provider in cooldown
\* is refused as unavailable whatever its counters, and the rate-limit
\* refusal is that of a provider not in cooldown.
C21_RefusedAtAdmission ==
    [][\A c \in Slots :
          RefusedAttempt(c) =>
             LET nm == providers[hist'[c].tried[Len(hist'[c].tried)]].name
                 e == hist'[c].lastErr
             IN  /\ calls'[c].pc /= "net"
                 /\ recorded' = recorded
                 /\ NoRequestAdded
                 /\ NoCooldownSet
                 /\ marks' = marks
                 /\ cursor' = (cursor + 1) % Len(providers)
                 /\ e \in {Unavailable, LocalRateLimit}
                 /\ InCooldown(nm) => e = Unavailable
                 /\ NotInCooldown(nm) => e = LocalRateLimit]_vars

\* A call was refused as unavailable by a provider whose minute window is
\* full as well, and the refusal ended the call.
C21_Witness ==
    \E c \in Slots :
        /\ store = "memory" /\ Done(c)
        /\ calls[c].result.kind = "all_failed"
        /\ hist[c].tried = <<1>> /\ hist[c].nets = <<>>
        /\ hist[c].lastErr = Unavailable
        /\ providers[1].requests_per_minute /= 0
        /\ InWindow(trackers[providers[1].name].minute_requests, now,
                    MinuteWindow) >= providers[1].requests_per_minute

-----------------------------------------------------------------------------
(* Properties of the shared cursor under Spec                               *)

\* The attempts that fail in this step: refused at admission, or a network
\* call that ends without a response.
FailedInStep ==
    Cardinality({c \in Slots :
                    \/ RefusedAttempt(c)
                    \/ NetEnds(c) /\ calls'[c].result.kind /= "response"})

\* C22: the cursor is a valid index in every state, and every step moves it
\* by exactly the number of attempts that fail in the step, modulo the
\* number of providers: starting from the initial cursor no advance is lost
\* or added, whatever the interleaving of the calls.
C22_CursorCountsFailures ==
    /\ [](cursor \in 0..(Len(providers) - 1))
    /\ [][cursor' = (cursor + FailedInStep) % Len(providers)]_vars

\* Two overlapping calls each had a failed attempt on the first of two
\* providers, the second while the first was waiting for the network: the
\* cursor has gone round once.
C22_Witness ==
    /\ Len(providers) = 2 /\ started = 2 /\ cursor = 0
    /\ calls[1].pc = "sleep" /\ hist[1].nets = <<1>>
    /\ calls[2].pc = "sleep" /\ hist[2].tried = <<1>> /\ hist[2].nets = <<>>

-----------------------------------------------------------------------------
(* Overlapping calls under a fair event loop: every network call ends (the  *)
(* clients are built with timeout=30.0, line 385), every sleep returns, and *)
(* every finished call hands its result to its caller.                      *)

FairOverlap ==
    \A c \in Slots :
        /\ WF_vars(WakeUp(c, TRUE) /\ UNCHANGED served)
        /\ WF_vars(NetReturn(c, Ok, TRUE) /\ UNCHANGED served)
        /\ WF_vars(Return(c) /\ UNCHANGED served)

SpecOverlapFair == InitOverlap /\ [][NextOverlap]_vars /\ FairOverlap

\* C23: a call makes at most N attempts, and every call that has started
\* reaches its end, with a response or with the aggregate error, whatever
\* the other calls do.
C23_EveryCallTerminates ==
    /\ [](\A c \in Slots :
             /\ Len(hist[c].tried) <= Len(providers)
             /\ Done(c) => calls[c].result.kind \in {"response", "all_failed"})
    /\ \A c \in Slots : InFlight(calls[c]) ~> Done(c)

\* The first call ended with the aggregate error after N attempts while the
\* second call was still in flight.
C23_Witness ==
    /\ Done(1) /\ calls[1].result.kind = "all_failed"
    /\ Len(hist[1].tried) = Len(providers)
    /\ InFlight(calls[2])

-----------------------------------------------------------------------------
(* Properties of the windows of a UsageTracker under Spec                   *)

NonDecreasing(q) == \A i, j \in 1..Len(q) : i <= j => q[i] <= q[j]

\* C24: in every tracker the timestamps of the minute window and of the day
\* window are non-decreasing in insertion order, whatever the interleaving
\* of the calls that record requests.
C24_WindowsNonDecreasing ==
    \A nm \in DOMAIN trackers :
        /\ NonDecreasing(trackers[nm].minute_requests)
        /\ NonDecreasing(trackers[nm].day_requests)

\* Two calls dispatched to the same provider at different times are both
\* waiting for the network, and the tracker holds their two timestamps.
C24_Witness ==
    /\ calls[1].pc = "net" /\ calls[2].pc = "net"
    /\ calls[1].config = calls[2].config
    /\ LET nm == providers[calls[1].config].name
       IN  /\ nm \in DOMAIN trackers
           /\ Len(trackers[nm].minute_requests) = 2
           /\ trackers[nm].minute_requests[1] < trackers[nm].minute_requests[2]

-----------------------------------------------------------------------------
(* Properties of get_counts under SpecTracker                               *)

Within(ts, t, w) == SelectSeq(ts, LAMBDA x : t - x <= w)

\* C25: get_counts returns the number of recorded requests at most 60 s
\* old and the number at most 86400 s old, and leaves in each window
\* exactly the recorded requests that are inside it.
C25_CountsAreExact ==
    lastOp.op = "get_counts" =>
        LET ts == recorded[TrackedProvider]
            tr == trackers[TrackedProvider]
        IN  /\ lastOp.ret = <<InWindow(ts, lastOp.at, MinuteWindow),
                              InWindow(ts, lastOp.at, DayWindow)>>
            /\ tr.minute_requests = Within(ts, lastOp.at, MinuteWindow)
            /\ tr.day_requests = Within(ts, lastOp.at, DayWindow)

\* Of three recorded requests one is older than a day, one is exactly a day
\* old and one is new: the counts are 1 and 2.
C25_Witness ==
    /\ lastOp.op = "get_counts" /\ lastOp.ret = <<1, 2>>
    /\ Len(recorded[TrackedProvider]) = 3
    /\ lastOp.at - recorded[TrackedProvider][2] = DayWindow

-----------------------------------------------------------------------------
(* Properties of the in-memory rate-limit check under SpecCeilings          *)

\* Both ceilings of `config`, where set, are above the counts at time t.
BelowCeilings(config, t) ==
    LET m == InWindow(recorded[config.name], t, MinuteWindow)
        d == InWindow(recorded[config.name], t, DayWindow)
    IN  /\ config.requests_per_minute = 0 \/ m < config.requests_per_minute
        /\ config.requests_per_day = 0 \/ d < config.requests_per_day

-----------------------------------------------------------------------------
(* Properties of the minute ceiling with overlapping calls under Spec       *)

\* The network calls dispatched to `nm` in the 60 seconds that end with the
\* j-th of them.
DispatchedInWindow(nm, j) ==
    Cardinality({k \in 1..Len(recorded[nm]) :
                    /\ recorded[nm][k] <= recorded[nm][j]
                    /\ recorded[nm][j] - recorded[nm][k] <= MinuteWindow
                    /\ k <= j})

\* C27: with the in-memory store, the minute window of a provider whose
\* requests_per_minute is L never holds more than L timestamps, and at most
\* L network calls are dispatched to it within any 60 seconds, however the
\* calls in flight interleave.
C27_AtMostLPerMinute ==
    store = "memory" =>
        \A i \in 1..Len(providers) :
            LET nm == providers[i].name
                L == providers[i].requests_per_minute
            IN  L /= 0 =>
                  /\ nm \in DOMAIN trackers =>
                        Len(trackers[nm].minute_requests) <= L
                  /\ \A j \in 1..Len(recorded[nm]) :
                        DispatchedInWindow(nm, j) <= L

\* While one call waits for the network on a provider with a ceiling of 1,
\* a second call was refused by that provider's rate limit.
C27_Witness ==
    /\ store = "memory" /\ providers[1].requests_per_minute = 1
    /\ calls[1].pc = "net" /\ calls[1].config = 1
    /\ calls[2].pc = "sleep" /\ hist[2].tried = <<1>>
    /\ hist[2].lastErr = LocalRateLimit
    /\ Len(trackers[providers[1].name].minute_requests) = 1

-----------------------------------------------------------------------------
(* Properties of the two windows of a tracker under SpecTracker             *)

\* C28: in every tracker the minute window is a suffix of the day window,
\* and the minute count returned by get_counts is at most the day count.
C28_MinuteWithinDay ==
    /\ \A nm \in DOMAIN trackers :
          IsSuffix(trackers[nm].minute_requests, trackers[nm].day_requests)
    /\ lastOp.op = "get_counts" => lastOp.ret[1] <= lastOp.ret[2]

\* After a count the minute window holds one of the three requests of the
\* day window.
C28_Witness ==
    /\ lastOp.op = "get_counts"
    /\ TrackedProvider \in DOMAIN trackers
    /\ Len(trackers[TrackedProvider].minute_requests) = 1
    /\ Len(trackers[TrackedProvider].day_requests) = 3

-----------------------------------------------------------------------------
(* Properties of a call that fails on every provider under Spec             *)

\* C29: a call that ran with no other call in flight and failed on all N
\* providers leaves the cursor where it found it, so the next call starts
\* at the same provider.
C29_FullRoundRestoresCursor ==
    \A c \in Slots :
        (/\ Done(c) /\ calls[c].result.kind = "all_failed"
         /\ hist[c].alone)
        => /\ Len(hist[c].tried) = Len(providers)
           /\ hist[c].retCursor = hist[c].startCursor
           /\ cursor = hist[c].startCursor

\* A lone call that started at the second of two providers failed on both
\* and left the cursor on the second.
C29_Witness ==
    \E c \in Slots :
        /\ Done(c) /\ calls[c].result.kind = "all_failed" /\ hist[c].alone
        /\ hist[c].startCursor = 1 /\ hist[c].tried = <<2, 1>>
        /\ cursor = 1

-----------------------------------------------------------------------------
(* Properties of get_tracker under SpecThreads                              *)

\* C30: whatever the interleaving of the threads, at most one UsageTracker
\* object is made per provider, every thread is given the object the dict
\* holds, and every request recorded on a returned object is in the store.
C30_OneTrackerPerProvider ==
    /\ \A i, j \in 1..Len(threads.made) :
          threads.made[i] = threads.made[j] => i = j
    /\ \A t \in Threads :
          threads.th[t].tracker /= 0 =>
             threads.th[t].tracker = threads.ids[threads.th[t].key]
    /\ \A nm \in DOMAIN recorded :
          Len(recorded[nm])
             = Len(get_tracker(trackers, nm)[nm].day_requests)

\* Three threads used the same provider for the first time together: all
\* three found no tracker at the first test and took the lock in turn, one
\* object was made and it holds their three requests.
C30_Witness ==
    \E nm \in DOMAIN recorded :
        /\ \A t \in Threads :
              /\ threads.th[t].pc = "used" /\ threads.th[t].key = nm
              /\ threads.th[t].locked
        /\ threads.made = <<nm>>
        /\ Len(trackers[nm].day_requests) = MaxThreads

=============================================================================
